---- MODULE Spec2Model ----
(***************************************************************************)
(* JnbRelay: a TLS-terminating reverse proxy (src/main.go).                *)
(*                                                                         *)
(* The module models                                                       *)
(*   - the three callbacks main installs on the reverse proxy (Director,   *)
(*     ModifyResponse, ErrorHandler) as operators on request / response    *)
(*     records,                                                            *)
(*   - one exchange as the reverse proxy drives it through these callbacks,*)
(*   - the main goroutine (flags, certificate checks, construction,        *)
(*     ListenAndServeTLS, exit) and the shutdown goroutine (signal.Notify, *)
(*     <-sigChan, server.Shutdown) with every interleaving of their steps. *)
(*                                                                         *)
(* Strings that the code only copies are TLA+ strings.  Strings that the   *)
(* code takes apart (the request path, the target URL) are sequences of    *)
(* characters / tokens so that filepath.Ext, mime.TypeByExtension and      *)
(* url.Parse are computed the way the code computes them.                  *)
(***************************************************************************)
EXTENDS Integers, Sequences, FiniteSets, TLC

\* ------------------------------------------------------------------ bounds

\* Longest request path (in characters) the rewriter is checked on.
MaxPathLen == 4
\* Most values of one header a client / upstream supplies.
MaxValues == 2
\* Connections the server may accept in one run.
MaxConns == 2

VARIABLES
    args,         \* what flag.Parse makes of os.Args: "flags", "help" or "undefined"
    cfg,          \* the Config parseFlags fills from the command line
    files,        \* paths that exist on disk (what os.Stat sees)
    mainPc,       \* position of the main goroutine
    exitCode,     \* -1 while the process runs, else the process's exit code
    target,       \* the parsed upstream URL (NoTarget before construction)
    sigPc,        \* position of the shutdown goroutine
    notified,     \* signal.Notify(sigChan, os.Interrupt) has been called
    sigChan,      \* number of signals buffered in sigChan (capacity 1)
    inShutdown,   \* server.inShutdown
    listenerOpen, \* the listening socket is open and tracked by the server
    ctxDone,      \* the 15 s shutdown context has expired
    shutdownErr,  \* what server.Shutdown returned ("none" until it returns)
    shutdownLog,  \* number of "Server shutdown error" lines logged
    serveErr,     \* what ListenAndServeTLS returned ("none" until it returns)
    conn,         \* conn[c]: state of connection c (net/http ConnState)
    ex,           \* ex[c]: the exchange connection c is carrying
    arg,          \* a callback's input, when the callback is run on its own
    result        \* <<>> before that callback has run, then <<its output>>

vars == <<args, cfg, files, mainPc, exitCode, target, sigPc, notified, sigChan,
          inShutdown, listenerOpen, ctxDone, shutdownErr,
          shutdownLog, serveErr, conn, ex, arg, result>>

procVars == <<args, cfg, files, mainPc, exitCode, sigPc, notified, sigChan,
              inShutdown, listenerOpen, ctxDone, shutdownErr,
              shutdownLog, serveErr, conn, ex>>

\* ------------------------------------------------------------ sequences

\* All sequences over S of length lo..hi.
SeqsOf(S, lo, hi) == UNION {[1..n -> S] : n \in lo..hi}

\* ---------------------------------------------------------- http.Header

\* Keys are held in canonical MIME form; the code's literals are canonicalised
\* by Header.Add / Set / Get (textproto.CanonicalMIMEHeaderKey).
ReqHeaderKeys == {"X-Forwarded-Host", "X-Forwarded-Proto", "X-Real-Ip", "Accept"}

RespHeaderKeys == {"Content-Type", "Cache-Control"}

CanonicalMIMEHeaderKey(k) ==
    CASE k = "X-Real-IP" -> "X-Real-Ip"
      [] OTHER -> k

\* Header.Add: append to the values already held under the key.
HeaderAdd(h, k, v) == [h EXCEPT ![CanonicalMIMEHeaderKey(k)] = Append(@, v)]

\* Header.Set: replace every value held under the key by the one value.
HeaderSet(h, k, v) == [h EXCEPT ![CanonicalMIMEHeaderKey(k)] = <<v>>]

\* Header.Get: the first value under the key, "" when there is none.
HeaderGet(h, k) ==
    IF h[CanonicalMIMEHeaderKey(k)] = <<>> THEN ""
    ELSE h[CanonicalMIMEHeaderKey(k)][1]

\* ------------------------------------------------------- target URL

\* fmt.Sprintf("http://%s:%d", config.ProxyHost, config.ProxyPort), as tokens.
TargetURL(config) ==
    <<"http", "://", config.ProxyHost, ":", ToString(config.ProxyPort)>>

RECURSIVE Join(_)
Join(toks) == IF toks = <<>> THEN "" ELSE Head(toks) \o Join(Tail(toks))

\* url.Parse on scheme://authority: the scheme is what precedes "://", the host
\* is the authority that follows it.
UrlParse(toks) ==
    LET i == CHOOSE j \in 1..Len(toks) : toks[j] = "://"
    IN  [Scheme |-> Join(SubSeq(toks, 1, i - 1)),
         Host   |-> Join(SubSeq(toks, i + 1, Len(toks)))]

\* ------------------------------------------------------- proxy.Director

\* A Director that adds the forwarding headers before it rewrites the request.
DirectorHeadersFirst(req) ==
    LET h1 == HeaderAdd(req.Header, "X-Forwarded-Host", req.Host)
        h2 == HeaderAdd(h1, "X-Forwarded-Proto", req.URL.Scheme)
        h3 == HeaderAdd(h2, "X-Real-IP", req.RemoteAddr)
    IN  [req EXCEPT !.URL.Scheme = target.Scheme,
                    !.URL.Host = target.Host,
                    !.Host = target.Host,
                    !.Header = h3]

\* A Director that also replaces the path and the query by the target's,
\* which has neither.
DirectorReplacesPath(req) ==
    LET r1 == [req EXCEPT !.URL.Scheme = target.Scheme,
                          !.URL.Host = target.Host,
                          !.URL.Path = <<"/">>,
                          !.URL.RawQuery = "",
                          !.Host = target.Host]
        h1 == HeaderAdd(r1.Header, "X-Forwarded-Host", r1.Host)
        h2 == HeaderAdd(h1, "X-Forwarded-Proto", r1.URL.Scheme)
        h3 == HeaderAdd(h2, "X-Real-IP", r1.RemoteAddr)
    IN  [r1 EXCEPT !.Header = h3]

\* A Director without the assignment req.Host = target.Host.
DirectorKeepsHost(req) ==
    LET r1 == [req EXCEPT !.URL.Scheme = target.Scheme,
                          !.URL.Host = target.Host]
        h1 == HeaderAdd(r1.Header, "X-Forwarded-Host", r1.Host)
        h2 == HeaderAdd(h1, "X-Forwarded-Proto", r1.URL.Scheme)
        h3 == HeaderAdd(h2, "X-Real-IP", r1.RemoteAddr)
    IN  [r1 EXCEPT !.Header = h3]

\* A Director that calls Header.Set where the code calls Header.Add.
DirectorSetsHeaders(req) ==
    LET r1 == [req EXCEPT !.URL.Scheme = target.Scheme,
                          !.URL.Host = target.Host,
                          !.Host = target.Host]
        h1 == HeaderSet(r1.Header, "X-Forwarded-Host", r1.Host)
        h2 == HeaderSet(h1, "X-Forwarded-Proto", r1.URL.Scheme)
        h3 == HeaderSet(h2, "X-Real-IP", r1.RemoteAddr)
    IN  [r1 EXCEPT !.Header = h3]

\* The three assignments run first, so the Header.Add calls read the fields
\* as already rewritten.
Director(req) ==
    LET r1 == [req EXCEPT !.URL.Scheme = target.Scheme,
                          !.URL.Host = target.Host,
                          !.Host = target.Host]
        h1 == HeaderAdd(r1.Header, "X-Forwarded-Host", r1.Host)
        h2 == HeaderAdd(h1, "X-Forwarded-Proto", r1.URL.Scheme)
        h3 == HeaderAdd(h2, "X-Real-IP", r1.RemoteAddr)
    IN  [r1 EXCEPT !.Header = h3]

\* --------------------------------------------------- proxy.ModifyResponse

\* os.IsPathSeparator on the build targets of the README (linux, darwin).
IsPathSeparator(ch) == ch = "/"

\* filepath.Ext: scan back from the end, stop at a separator, return the
\* suffix that starts at the first dot met.
RECURSIVE ExtFrom(_, _)
ExtFrom(path, i) ==
    IF i < 1 \/ IsPathSeparator(path[i]) THEN <<>>
    ELSE IF path[i] = "." THEN SubSeq(path, i, Len(path))
    ELSE ExtFrom(path, i - 1)

Ext(path) == ExtFrom(path, Len(path))

ToLower(ch) == IF ch = "J" THEN "j" ELSE IF ch = "S" THEN "s" ELSE ch

\* The extension table mime starts with (builtinTypesLower), restricted to the
\* extensions the path alphabet can spell.
MimeTypesLower(ext) ==
    IF ext = <<".", "j", "s">> THEN "text/javascript; charset=utf-8" ELSE ""

\* mime.TypeByExtension: the case-sensitive lookup, then the lower-cased one.
TypeByExtension(ext) ==
    IF MimeTypesLower(ext) # "" THEN MimeTypesLower(ext)
    ELSE MimeTypesLower([i \in 1..Len(ext) |-> ToLower(ext[i])])

\* A rewriter without the test of the current Content-Type.
ModifyResponseAlways(resp) ==
    LET path == resp.Request.URL.Path
        ext == Ext(path)
        correctMimeType == TypeByExtension(ext)
    IN  IF ext # <<>> /\ correctMimeType # ""
        THEN [resp |-> [resp EXCEPT !.Header =
                           HeaderSet(@, "Content-Type", correctMimeType)],
              err |-> "nil", logged |-> 1]
        ELSE [resp |-> resp, err |-> "nil", logged |-> 0]

\* A rewriter whose test leaves out the empty Content-Type.
ModifyResponseSkipsEmpty(resp) ==
    LET path == resp.Request.URL.Path
        ext == Ext(path)
        correctMimeType == TypeByExtension(ext)
        currentContentType == HeaderGet(resp.Header, "Content-Type")
    IN  IF /\ ext # <<>>
           /\ correctMimeType # ""
           /\ currentContentType \in {"text/plain", "application/octet-stream"}
        THEN [resp |-> [resp EXCEPT !.Header =
                           HeaderSet(@, "Content-Type", correctMimeType)],
              err |-> "nil", logged |-> 1]
        ELSE [resp |-> resp, err |-> "nil", logged |-> 0]

\* A rewriter that reports a path it has no type for as an error.
ModifyResponseFailsUnmapped(resp) ==
    LET path == resp.Request.URL.Path
        ext == Ext(path)
        correctMimeType == TypeByExtension(ext)
        currentContentType == HeaderGet(resp.Header, "Content-Type")
    IN  IF ext = <<>> \/ correctMimeType = ""
        THEN [resp |-> resp, err |-> "unknown type", logged |-> 0]
        ELSE IF currentContentType \in {"", "text/plain",
                                        "application/octet-stream"}
        THEN [resp |-> [resp EXCEPT !.Header =
                           HeaderSet(@, "Content-Type", correctMimeType)],
              err |-> "nil", logged |-> 1]
        ELSE [resp |-> resp, err |-> "nil", logged |-> 0]

\* Returns the response as the client-facing copy will see it, the error the
\* callback returns (always nil) and the number of lines it logged.
ModifyResponse(resp) ==
    LET path == resp.Request.URL.Path
        ext == Ext(path)
        correctMimeType == TypeByExtension(ext)
        currentContentType == HeaderGet(resp.Header, "Content-Type")
    IN  IF /\ ext # <<>>
           /\ correctMimeType # ""
           /\ currentContentType \in {"", "text/plain", "application/octet-stream"}
        THEN [resp |-> [resp EXCEPT !.Header =
                           HeaderSet(@, "Content-Type", correctMimeType)],
              err |-> "nil", logged |-> 1]
        ELSE [resp |-> resp, err |-> "nil", logged |-> 0]

\* ----------------------------------------------------- proxy.ErrorHandler

\* http.StatusBadGateway
StatusBadGateway == 502

\* An ErrorHandler that logs and writes no status.
ErrorHandlerNoStatus(w) == [w EXCEPT !.errLogs = @ + 1]

\* w: what the client has been sent so far and the lines logged for the
\* exchange.  log.Printf, then w.WriteHeader(502).
ErrorHandler(w) == [w EXCEPT !.errLogs = @ + 1, !.Status = StatusBadGateway]

\* ------------------------------------------------------------ inputs

\* Command lines: one complete, and ones with a required flag left out.
GoodConfigs ==
    {[Host |-> "0.0.0.0", Port |-> 443, ProxyHost |-> h, ProxyPort |-> p,
      CertFile |-> "cert.crt", KeyFile |-> "key.pem"] :
        h \in {"127.0.0.1", "backend"}, p \in {8443, 80}}

DefaultConfig ==
    [Host |-> "0.0.0.0", Port |-> 443, ProxyHost |-> "127.0.0.1",
     ProxyPort |-> 8443, CertFile |-> "cert.crt", KeyFile |-> "key.pem"]

BadConfigs ==
    {[DefaultConfig EXCEPT !.Port = 0], [DefaultConfig EXCEPT !.ProxyHost = ""],
     [DefaultConfig EXCEPT !.KeyFile = ""]}

FileSets == {{"cert.crt", "key.pem"}, {"cert.crt"}, {"key.pem"}}

NoTarget == [Scheme |-> "", Host |-> ""]

\* Hosts a client may address, the upstream's own authority among them.
ClientHosts == {"relay.example", "127.0.0.1:8443"}

ClientValues == {"a.example", "b.example"}

EmptyReqHeader == [k \in ReqHeaderKeys |-> <<>>]

\* Inbound requests as the server parses them: origin-form requests carry no
\* URL scheme or host, absolute-form ones carry both.
Requests ==
    {[Method |-> m,
      URL |-> [Scheme |-> u[1], Host |-> u[2], Path |-> <<"/", "j">>,
               RawQuery |-> "q=1"],
      Host |-> h,
      Header |-> [EmptyReqHeader EXCEPT !["X-Forwarded-Host"] = xfh,
                                        !["X-Forwarded-Proto"] = xfp,
                                        !["X-Real-Ip"] = xri,
                                        !["Accept"] = <<"*/*">>],
      Body |-> "body",
      RemoteAddr |-> ra] :
        m \in {"GET", "POST"},
        u \in {<<"", "">>, <<"https", "relay.example">>},
        h \in ClientHosts,
        xfh \in SeqsOf(ClientValues, 0, MaxValues),
        xfp \in SeqsOf({"https"}, 0, MaxValues),
        xri \in SeqsOf({"10.9.9.9"}, 0, MaxValues),
        ra \in {"10.0.0.1:5000", "10.0.0.2:6000"}}

PathChars == {"/", ".", "j", "s", "J"}

\* Request paths: absolute, up to MaxPathLen characters.
Paths == {p \in SeqsOf(PathChars, 1, MaxPathLen) : p[1] = "/"}

ContentTypes ==
    {"", "text/plain", "application/octet-stream", "application/json",
     "text/plain; charset=utf-8"}

\* Upstream responses, each with the outbound request it answers.
Responses ==
    {[StatusCode |-> st,
      Header |-> [k \in RespHeaderKeys |->
                    IF k = "Content-Type" THEN ct ELSE <<"no-store">>],
      Body |-> "x",
      Request |-> [URL |-> [Path |-> p]]] :
        st \in {200, 404},
        ct \in SeqsOf(ContentTypes, 0, MaxValues),
        p \in Paths}

\* ------------------------------------------- the callbacks on their own

\* Everything of the process but the configuration, main's position and the
\* target, as it is before any goroutine has run.
InitRest ==
    /\ args = "flags"
    /\ files = {"cert.crt", "key.pem"}
    /\ exitCode = -1
    /\ sigPc = "notStarted"
    /\ notified = FALSE
    /\ sigChan = 0
    /\ inShutdown = FALSE
    /\ listenerOpen = FALSE
    /\ ctxDone = FALSE
    /\ shutdownErr = "none"
    /\ shutdownLog = 0
    /\ serveErr = "none"
    /\ conn = [c \in 1..MaxConns |-> "none"]
    /\ ex = [c \in 1..MaxConns |-> [pc |-> "none"]]

\* The Director on every request of Requests, for every upstream of
\* GoodConfigs: main is about to construct the target.
InitDirector ==
    /\ InitRest
    /\ cfg \in GoodConfigs
    /\ mainPc = "construct"
    /\ target = NoTarget
    /\ arg \in Requests
    /\ result = <<>>

DirectorCall ==
    /\ mainPc # "construct"
    /\ result = <<>>
    /\ result' = <<Director(arg)>>
    /\ UNCHANGED <<procVars, target, arg>>

\* The ModifyResponse callback on every response of Responses.
InitRewriter ==
    /\ InitRest
    /\ cfg = DefaultConfig
    /\ mainPc = "spawn"
    /\ target = UrlParse(TargetURL(DefaultConfig))
    /\ arg \in Responses
    /\ result = <<>>

ModifyResponseCall ==
    /\ result = <<>>
    /\ result' = <<ModifyResponse(arg)>>
    /\ UNCHANGED <<procVars, target, arg>>

\* ------------------------------------------------------- the process

Conns == 1..MaxConns

Running == exitCode = -1

\* The requests the clients of a run send: two kinds of client, one per
\* connection in turn.
PlainRequest ==
    [Method |-> "GET",
     URL |-> [Scheme |-> "", Host |-> "", Path |-> <<"/", "s", ".", "j", "s">>,
              RawQuery |-> ""],
     Host |-> "relay.example",
     Header |-> [EmptyReqHeader EXCEPT !["Accept"] = <<"*/*">>],
     Body |-> "",
     RemoteAddr |-> "10.0.0.1:5000"]

ForwardedRequest ==
    [Method |-> "POST",
     URL |-> [Scheme |-> "", Host |-> "", Path |-> <<"/", "j">>,
              RawQuery |-> "q=1"],
     Host |-> "127.0.0.1:8443",
     Header |-> [EmptyReqHeader EXCEPT !["X-Forwarded-Host"] = <<"a.example">>],
     Body |-> "body",
     RemoteAddr |-> "10.0.0.2:6000"]

InboundSample(c) == IF c % 2 = 1 THEN {PlainRequest} ELSE {ForwardedRequest}

\* What the upstream may answer to an outbound request, when it answers.
UpstreamSample(outreq) ==
    IF outreq.Method = "GET"
    THEN {[StatusCode |-> 200,
           Header |-> [k \in RespHeaderKeys |->
                         IF k = "Content-Type" THEN <<"text/plain">> ELSE <<>>],
           Body |-> "x"]}
    ELSE {[StatusCode |-> 404,
           Header |-> [k \in RespHeaderKeys |->
                         IF k = "Content-Type" THEN <<"application/json">>
                         ELSE <<>>],
           Body |-> "{}"]}

\* Nothing sent to the client yet, nothing logged for the exchange.
FreshWriter ==
    [Status |-> 0, Header |-> [k \in RespHeaderKeys |-> <<>>], Body |-> "",
     errLogs |-> 0]

InFlight(c) ==
    ex[c].pc \in {"read", "directed", "responded", "failed", "modified",
                  "streaming"}

\* The process ends: its goroutines are gone, its sockets are closed, and the
\* exchanges still in flight are cut off.  What was logged and returned before
\* stays on record.
Exit(code) ==
    /\ exitCode' = code
    /\ mainPc' = "exited"
    /\ sigPc' = "exited"
    /\ sigChan' = 0
    /\ listenerOpen' = FALSE
    /\ conn' = [c \in Conns |-> IF conn[c] = "none" THEN "none" ELSE "closed"]
    /\ ex' = [c \in Conns |->
                IF InFlight(c)
                THEN [pc |-> "killed", atInterrupt |-> ex[c].atInterrupt]
                ELSE ex[c]]

Init ==
    /\ \/ args = "flags" /\ cfg \in {DefaultConfig} \cup BadConfigs
       \/ args \in {"help", "undefined"} /\ cfg = DefaultConfig
    /\ files \in FileSets
    /\ mainPc = "parseFlags"
    /\ exitCode = -1
    /\ target = NoTarget
    /\ sigPc = "notStarted"
    /\ notified = FALSE
    /\ sigChan = 0
    /\ inShutdown = FALSE
    /\ listenerOpen = FALSE
    /\ ctxDone = FALSE
    /\ shutdownErr = "none"
    /\ shutdownLog = 0
    /\ serveErr = "none"
    /\ conn = [c \in Conns |-> "none"]
    /\ ex = [c \in Conns |-> [pc |-> "none"]]
    /\ arg = <<>>
    /\ result = <<>>

unitVars == <<arg, result>>

\* ---- main goroutine

\* The exit codes of flag.Parse on the command-line FlagSet (ExitOnError).
ExitHelp == 0
ExitUsage == 2

\* flag.Parse() does not return: -h or -help prints the usage and exits with
\* ExitHelp, a flag that is not defined (or a value that does not parse)
\* prints the error and the usage and exits with ExitUsage.
FlagParseExit ==
    /\ Running /\ mainPc = "parseFlags"
    /\ args # "flags"
    /\ Exit(IF args = "help" THEN ExitHelp ELSE ExitUsage)
    /\ UNCHANGED <<args, cfg, files, target, notified, inShutdown, ctxDone,
                   shutdownErr, shutdownLog, serveErr, unitVars>>

\* parseFlags: a required flag is missing: usage, os.Exit(1).
ParseFlagsMissing ==
    /\ Running /\ mainPc = "parseFlags"
    /\ args = "flags"
    /\ \/ cfg.Host = "" \/ cfg.Port = 0 \/ cfg.ProxyHost = ""
       \/ cfg.ProxyPort = 0 \/ cfg.CertFile = "" \/ cfg.KeyFile = ""
    /\ Exit(1)
    /\ UNCHANGED <<args, cfg, files, target, notified, inShutdown, ctxDone, shutdownErr,
                   shutdownLog, serveErr, unitVars>>

ParseFlagsOk ==
    /\ Running /\ mainPc = "parseFlags"
    /\ args = "flags"
    /\ cfg.Host # "" /\ cfg.Port # 0 /\ cfg.ProxyHost # ""
    /\ cfg.ProxyPort # 0 /\ cfg.CertFile # "" /\ cfg.KeyFile # ""
    /\ mainPc' = "statCert"
    /\ UNCHANGED <<args, cfg, files, exitCode, target, sigPc, notified, sigChan,
                   inShutdown, listenerOpen, ctxDone, shutdownErr,
                   shutdownLog, serveErr, conn, ex, unitVars>>

\* os.Stat(config.CertFile) / os.Stat(config.KeyFile): log.Fatalf when absent.
StatMissing ==
    /\ Running
    /\ \/ mainPc = "statCert" /\ cfg.CertFile \notin files
       \/ mainPc = "statKey" /\ cfg.KeyFile \notin files
    /\ Exit(1)
    /\ UNCHANGED <<args, cfg, files, target, notified, inShutdown, ctxDone, shutdownErr,
                   shutdownLog, serveErr, unitVars>>

StatOk ==
    /\ Running
    /\ \/ mainPc = "statCert" /\ cfg.CertFile \in files /\ mainPc' = "statKey"
       \/ mainPc = "statKey" /\ cfg.KeyFile \in files /\ mainPc' = "construct"
    /\ UNCHANGED <<args, cfg, files, exitCode, target, sigPc, notified, sigChan,
                   inShutdown, listenerOpen, ctxDone, shutdownErr,
                   shutdownLog, serveErr, conn, ex, unitVars>>

\* url.Parse of the target URL, the proxy with its callbacks, the server.
Construct ==
    /\ Running /\ mainPc = "construct"
    /\ target' = UrlParse(TargetURL(cfg))
    /\ mainPc' = "spawn"
    /\ UNCHANGED <<args, cfg, files, exitCode, sigPc, notified, sigChan,
                   inShutdown, listenerOpen, ctxDone, shutdownErr,
                   shutdownLog, serveErr, conn, ex, unitVars>>

\* go func() { ... }(): the shutdown goroutine exists from here on.
Spawn ==
    /\ Running /\ mainPc = "spawn"
    /\ sigPc' = "notify"
    /\ mainPc' = "listen"
    /\ UNCHANGED <<args, cfg, files, exitCode, target, notified, sigChan,
                   inShutdown, listenerOpen, ctxDone, shutdownErr,
                   shutdownLog, serveErr, conn, ex, unitVars>>

\* A ListenAndServeTLS that does not look at the shutdown flag.
ListenIgnoringShutdown ==
    /\ Running /\ mainPc = "listen"
    /\ listenerOpen' = TRUE
    /\ mainPc' = "serving"
    /\ UNCHANGED <<args, cfg, files, exitCode, target, sigPc, notified, sigChan,
                   inShutdown, ctxDone, shutdownErr,
                   shutdownLog, serveErr, conn, ex, unitVars>>

\* server.ListenAndServeTLS binds the address and starts serving, unless the
\* server is already shutting down.
Listen ==
    /\ Running /\ mainPc = "listen"
    /\ ~inShutdown
    /\ listenerOpen' = TRUE
    /\ mainPc' = "serving"
    /\ UNCHANGED <<args, cfg, files, exitCode, target, sigPc, notified, sigChan,
                   inShutdown, ctxDone, shutdownErr,
                   shutdownLog, serveErr, conn, ex, unitVars>>

\* A server that reports the closed listener as any other listen error.
ListenClosedAsError ==
    /\ Running /\ mainPc = "listen"
    /\ inShutdown
    /\ serveErr' = "listen error"
    /\ mainPc' = "returned"
    /\ UNCHANGED <<args, cfg, files, exitCode, target, sigPc, notified, sigChan,
                   inShutdown, listenerOpen, ctxDone, shutdownErr,
                   shutdownLog, conn, ex, unitVars>>

\* server.ListenAndServeTLS on a server that is shutting down returns
\* http.ErrServerClosed at once.
ListenClosed ==
    /\ Running /\ mainPc = "listen"
    /\ inShutdown
    /\ serveErr' = "ErrServerClosed"
    /\ mainPc' = "returned"
    /\ UNCHANGED <<args, cfg, files, exitCode, target, sigPc, notified, sigChan,
                   inShutdown, listenerOpen, ctxDone, shutdownErr,
                   shutdownLog, conn, ex, unitVars>>

\* server.ListenAndServeTLS fails to bind or to load the key pair.
ListenFail ==
    /\ Running /\ mainPc = "listen"
    /\ ~inShutdown
    /\ serveErr' = "listen error"
    /\ mainPc' = "returned"
    /\ UNCHANGED <<args, cfg, files, exitCode, target, sigPc, notified, sigChan,
                   inShutdown, listenerOpen, ctxDone, shutdownErr,
                   shutdownLog, conn, ex, unitVars>>

\* An accept loop that goes on after its listener is closed.
AcceptAnyTime(c) ==
    /\ Running /\ mainPc = "serving"
    /\ conn[c] = "none"
    /\ \A d \in Conns : d < c => conn[d] # "none"
    /\ conn' = [conn EXCEPT ![c] = "new"]
    /\ UNCHANGED <<args, cfg, files, mainPc, exitCode, target, sigPc, notified,
                   sigChan, inShutdown, listenerOpen, ctxDone,
                   shutdownErr, shutdownLog, serveErr, ex, unitVars>>

\* The accept loop of Serve takes a connection from the open listener and
\* starts its goroutine (connections are numbered in the order accepted).
Accept(c) ==
    /\ Running /\ mainPc = "serving"
    /\ listenerOpen
    /\ conn[c] = "none"
    /\ \A d \in Conns : d < c => conn[d] # "none"
    /\ conn' = [conn EXCEPT ![c] = "new"]
    /\ UNCHANGED <<args, cfg, files, mainPc, exitCode, target, sigPc, notified,
                   sigChan, inShutdown, listenerOpen, ctxDone,
                   shutdownErr, shutdownLog, serveErr, ex, unitVars>>

\* Accept fails on the listener Shutdown closed: Serve returns
\* http.ErrServerClosed.
ServeClosed ==
    /\ Running /\ mainPc = "serving"
    /\ ~listenerOpen /\ inShutdown
    /\ serveErr' = "ErrServerClosed"
    /\ mainPc' = "returned"
    /\ UNCHANGED <<args, cfg, files, exitCode, target, sigPc, notified, sigChan,
                   inShutdown, listenerOpen, ctxDone, shutdownErr,
                   shutdownLog, conn, ex, unitVars>>

\* Accept fails for good on an open listener: ListenAndServeTLS returns the
\* error and main's log.Fatal(err) ends the process with code 1.
ServeFail ==
    /\ Running /\ mainPc = "serving"
    /\ listenerOpen
    /\ serveErr' = "accept error"
    /\ Exit(1)
    /\ UNCHANGED <<args, cfg, files, target, notified, inShutdown, ctxDone, shutdownErr,
                   shutdownLog, unitVars>>

\* main without the test of the error: it returns whatever the listener said.
MainReturnUnchecked ==
    /\ Running /\ mainPc = "returned"
    /\ Exit(0)
    /\ UNCHANGED <<args, cfg, files, target, notified, inShutdown, ctxDone,
                   shutdownErr, shutdownLog, serveErr, unitVars>>

\* if err != http.ErrServerClosed { log.Fatal(err) }, else main returns.
MainReturn ==
    /\ Running /\ mainPc = "returned"
    /\ IF serveErr # "ErrServerClosed" THEN Exit(1) ELSE Exit(0)
    /\ UNCHANGED <<args, cfg, files, target, notified, inShutdown, ctxDone, shutdownErr,
                   shutdownLog, serveErr, unitVars>>

\* ---- the operator's interrupts

\* os.Interrupt once signal.Notify has run: the runtime sends on sigChan
\* without blocking, so a signal that finds the buffer (capacity 1) full is
\* dropped.
InterruptNotified ==
    /\ Running
    /\ notified
    /\ sigChan' = 1
    /\ UNCHANGED <<args, cfg, files, mainPc, exitCode, target, sigPc, notified,
                   inShutdown, listenerOpen, ctxDone, shutdownErr,
                   shutdownLog, serveErr, conn, ex, unitVars>>

\* os.Interrupt before signal.Notify has run: the default disposition ends
\* the process (130 = 128 + SIGINT, as a shell reports it).
InterruptDefault ==
    /\ Running
    /\ ~notified
    /\ Exit(130)
    /\ UNCHANGED <<args, cfg, files, target, notified, inShutdown, ctxDone, shutdownErr,
                   shutdownLog, serveErr, unitVars>>

\* ---- shutdown goroutine

\* sigChan := make(chan os.Signal, 1); signal.Notify(sigChan, os.Interrupt)
Notify ==
    /\ Running /\ sigPc = "notify"
    /\ notified' = TRUE
    /\ sigPc' = "wait"
    /\ UNCHANGED <<args, cfg, files, mainPc, exitCode, target, sigChan,
                   inShutdown, listenerOpen, ctxDone, shutdownErr,
                   shutdownLog, serveErr, conn, ex, unitVars>>

\* <-sigChan: the interrupt is handled.  (atInterrupt is a history mark, no
\* state of the program: while an exchange is in flight it tells whether the
\* exchange was in flight when the interrupt was handled.)
Receive ==
    /\ Running /\ sigPc = "wait"
    /\ sigChan > 0
    /\ sigChan' = sigChan - 1
    /\ sigPc' = "received"
    /\ ex' = [c \in Conns |->
                IF InFlight(c) THEN [ex[c] EXCEPT !.atInterrupt = TRUE]
                ELSE ex[c]]
    /\ UNCHANGED <<args, cfg, files, mainPc, exitCode, target, notified,
                   inShutdown, listenerOpen, ctxDone, shutdownErr,
                   shutdownLog, serveErr, conn, unitVars>>

\* log.Println("Shutting down server..."); context.WithTimeout(..., 15s):
\* the grace period starts to run.
StartGrace ==
    /\ Running /\ sigPc = "received"
    /\ sigPc' = "shutdown"
    /\ UNCHANGED <<args, cfg, files, mainPc, exitCode, target, notified, sigChan,
                   inShutdown, listenerOpen, ctxDone, shutdownErr,
                   shutdownLog, serveErr, conn, ex, unitVars>>

\* The 15 seconds of the shutdown context pass.
GraceExpire ==
    /\ Running /\ sigPc \in {"shutdown", "polling"}
    /\ ~ctxDone
    /\ ctxDone' = TRUE
    /\ UNCHANGED <<args, cfg, files, mainPc, exitCode, target, sigPc, notified,
                   sigChan, inShutdown, listenerOpen, shutdownErr,
                   shutdownLog, serveErr, conn, ex, unitVars>>

\* server.Shutdown(ctx), first part: mark the server as shutting down and
\* close its listeners.
ShutdownBegin ==
    /\ Running /\ sigPc = "shutdown"
    /\ inShutdown' = TRUE
    /\ listenerOpen' = FALSE
    /\ sigPc' = "polling"
    /\ UNCHANGED <<args, cfg, files, mainPc, exitCode, target, notified, sigChan,
                   ctxDone, shutdownErr,
                   shutdownLog, serveErr, conn, ex, unitVars>>

\* closeIdleConns: idle connections are closed, and so are the new ones in
\* `stale` (no request read for over five seconds); the rest are left alone.
CloseIdleConns(stale) ==
    [c \in Conns |->
        IF conn[c] = "idle" \/ (conn[c] = "new" /\ c \in stale) THEN "closed"
        ELSE conn[c]]

Quiescent(cs) == \A c \in Conns : cs[c] \notin {"new", "active"}

\* server.Shutdown(ctx), the polling loop (entered once Serve has returned):
\* every connection is gone, so Shutdown returns nil.
ShutdownPollQuiescent ==
    /\ Running /\ sigPc = "polling" /\ mainPc # "serving"
    /\ \E stale \in SUBSET {c \in Conns : conn[c] = "new"} :
          /\ Quiescent(CloseIdleConns(stale))
          /\ conn' = CloseIdleConns(stale)
    /\ shutdownErr' = "nil"
    /\ sigPc' = "returned"
    /\ UNCHANGED <<args, cfg, files, mainPc, exitCode, target, notified, sigChan,
                   inShutdown, listenerOpen, ctxDone,
                   shutdownLog, serveErr, ex, unitVars>>

\* ... connections remain and the context has expired: Shutdown returns
\* ctx.Err().
ShutdownPollDeadline ==
    /\ Running /\ sigPc = "polling" /\ mainPc # "serving"
    /\ \E stale \in SUBSET {c \in Conns : conn[c] = "new"} :
          /\ ~Quiescent(CloseIdleConns(stale))
          /\ conn' = CloseIdleConns(stale)
    /\ ctxDone
    /\ shutdownErr' = "context deadline exceeded"
    /\ sigPc' = "returned"
    /\ UNCHANGED <<args, cfg, files, mainPc, exitCode, target, notified, sigChan,
                   inShutdown, listenerOpen, ctxDone,
                   shutdownLog, serveErr, ex, unitVars>>

\* ... connections remain and the context has not expired: poll again.
ShutdownPollAgain ==
    /\ Running /\ sigPc = "polling" /\ mainPc # "serving"
    /\ \E stale \in SUBSET {c \in Conns : conn[c] = "new"} :
          /\ ~Quiescent(CloseIdleConns(stale))
          /\ conn' = CloseIdleConns(stale)
    /\ ~ctxDone
    /\ UNCHANGED <<args, cfg, files, mainPc, exitCode, target, sigPc, notified,
                   sigChan, inShutdown, listenerOpen, ctxDone,
                   shutdownErr, shutdownLog, serveErr, ex, unitVars>>

\* if err := server.Shutdown(ctx); err != nil { log.Printf(...) }
ShutdownLogErr ==
    /\ Running /\ sigPc = "returned"
    /\ shutdownErr # "nil"
    /\ shutdownLog' = shutdownLog + 1
    /\ sigPc' = "done"
    /\ UNCHANGED <<args, cfg, files, mainPc, exitCode, target, notified, sigChan,
                   inShutdown, listenerOpen, ctxDone, shutdownErr,
                   serveErr, conn, ex, unitVars>>

\* A shutdown goroutine that loops: after Shutdown it waits for the next
\* interrupt.
ShutdownNoErrLoop ==
    /\ Running /\ sigPc = "returned"
    /\ shutdownErr = "nil"
    /\ sigPc' = "wait"
    /\ UNCHANGED <<args, cfg, files, mainPc, exitCode, target, notified, sigChan,
                   inShutdown, listenerOpen, ctxDone, shutdownErr,
                   shutdownLog, serveErr, conn, ex, unitVars>>

\* ... and when Shutdown returned nil, the goroutine ends without a word.
ShutdownNoErr ==
    /\ Running /\ sigPc = "returned"
    /\ shutdownErr = "nil"
    /\ sigPc' = "done"
    /\ UNCHANGED <<args, cfg, files, mainPc, exitCode, target, notified, sigChan,
                   inShutdown, listenerOpen, ctxDone, shutdownErr,
                   shutdownLog, serveErr, conn, ex, unitVars>>

\* ---- one exchange, as the reverse proxy serves it

lifeVars == <<args, cfg, files, mainPc, exitCode, target, sigPc, notified, sigChan,
              inShutdown, listenerOpen, ctxDone, shutdownErr,
              shutdownLog, serveErr>>

\* The connection's goroutine reads a request: the connection turns active
\* and the handler (the proxy) is called with the request.
ReadRequest(c, r) ==
    /\ Running
    /\ r \in InboundSample(c)
    /\ conn[c] \in {"new", "idle"}
    /\ conn' = [conn EXCEPT ![c] = "active"]
    /\ ex' = [ex EXCEPT ![c] =
                [pc |-> "read", in |-> r, outreq |-> r, resp |-> <<>>,
                 w |-> FreshWriter, mimeLogs |-> 0, attempts |-> 0,
                 atInterrupt |-> FALSE]]
    /\ UNCHANGED <<lifeVars, unitVars>>

\* The proxy clones the inbound request and runs the Director on the clone.
Direct(c) ==
    /\ Running /\ ex[c].pc = "read"
    /\ ex' = [ex EXCEPT ![c].pc = "directed", ![c].outreq = Director(ex[c].in)]
    /\ UNCHANGED <<lifeVars, conn, unitVars>>

\* transport.RoundTrip(outreq) returns the upstream's response (its headers
\* are in, its body is still to be read).
RoundTripOk(c) ==
    /\ Running /\ ex[c].pc = "directed"
    /\ \E u \in UpstreamSample(ex[c].outreq) :
          ex' = [ex EXCEPT ![c].pc = "responded",
                           ![c].attempts = @ + 1,
                           ![c].resp = [StatusCode |-> u.StatusCode,
                                        Header |-> u.Header,
                                        Body |-> u.Body,
                                        Request |-> ex[c].outreq]]
    /\ UNCHANGED <<lifeVars, conn, unitVars>>

\* A transport whose failure takes down every round trip in progress.
RoundTripFailShared(c) ==
    /\ Running /\ ex[c].pc = "directed"
    /\ ex' = [d \in Conns |->
                IF ex[d].pc = "directed"
                THEN [ex[d] EXCEPT !.pc = "failed", !.attempts = @ + 1]
                ELSE ex[d]]
    /\ UNCHANGED <<lifeVars, conn, unitVars>>

\* transport.RoundTrip(outreq) returns an error: refused, timed out, reset
\* before the response headers.
RoundTripFail(c) ==
    /\ Running /\ ex[c].pc = "directed"
    /\ ex' = [ex EXCEPT ![c].pc = "failed", ![c].attempts = @ + 1]
    /\ UNCHANGED <<lifeVars, conn, unitVars>>

\* When the handler returns, the connection is kept for the next request,
\* unless the server is shutting down.
AfterHandler == IF inShutdown THEN "closed" ELSE "idle"

\* The proxy hands the RoundTrip error to the ErrorHandler and returns.
HandleError(c) ==
    /\ Running /\ ex[c].pc = "failed"
    /\ ex' = [ex EXCEPT ![c].pc = "errored", ![c].w = ErrorHandler(@),
                        ![c].atInterrupt = FALSE]
    /\ conn' = [conn EXCEPT ![c] = AfterHandler]
    /\ UNCHANGED <<lifeVars, unitVars>>

\* The proxy runs ModifyResponse on the upstream's response; an error from
\* it would go to the ErrorHandler.
Rewrite(c) ==
    /\ Running /\ ex[c].pc = "responded"
    /\ LET m == ModifyResponse(ex[c].resp)
       IN  ex' = [ex EXCEPT ![c].pc = IF m.err = "nil" THEN "modified"
                                      ELSE "failed",
                            ![c].resp = m.resp,
                            ![c].mimeLogs = @ + m.logged]
    /\ UNCHANGED <<lifeVars, conn, unitVars>>

\* A proxy that may send the status and the headers to the client as soon as
\* the upstream's response is in, without waiting for ModifyResponse.
WriteHeaderEarly(c) ==
    /\ Running /\ ex[c].pc \in {"responded", "modified"}
    /\ ex' = [ex EXCEPT ![c].pc = "streaming",
                        ![c].w.Status = ex[c].resp.StatusCode,
                        ![c].w.Header = ex[c].resp.Header]
    /\ UNCHANGED <<lifeVars, conn, unitVars>>

\* The proxy copies the response's headers and status to the client.
WriteHeader(c) ==
    /\ Running /\ ex[c].pc = "modified"
    /\ ex' = [ex EXCEPT ![c].pc = "streaming",
                        ![c].w.Status = ex[c].resp.StatusCode,
                        ![c].w.Header = ex[c].resp.Header]
    /\ UNCHANGED <<lifeVars, conn, unitVars>>

\* The proxy streams the body to the client, to its end.
CopyBody(c) ==
    /\ Running /\ ex[c].pc = "streaming"
    /\ ex' = [ex EXCEPT ![c].pc = "relayed", ![c].w.Body = ex[c].resp.Body,
                        ![c].atInterrupt = FALSE]
    /\ conn' = [conn EXCEPT ![c] = AfterHandler]
    /\ UNCHANGED <<lifeVars, unitVars>>

\* The upstream fails while the body is streamed: the status is already with
\* the client, so the proxy aborts the handler (panic(http.ErrAbortHandler))
\* and the server closes the connection.
CopyBodyFail(c) ==
    /\ Running /\ ex[c].pc = "streaming"
    /\ ex' = [ex EXCEPT ![c].pc = "aborted", ![c].atInterrupt = FALSE]
    /\ conn' = [conn EXCEPT ![c] = "closed"]
    /\ UNCHANGED <<lifeVars, unitVars>>

\* ---- the callbacks on their own

SpecDirector == InitDirector /\ [][Construct \/ DirectorCall]_vars

SpecRewriter == InitRewriter /\ [][ModifyResponseCall]_vars

\* ---- the whole program

Next ==
    \/ FlagParseExit
    \/ ParseFlagsMissing
    \/ ParseFlagsOk
    \/ StatMissing
    \/ StatOk
    \/ Construct
    \/ Spawn
    \/ Listen
    \/ ListenClosed
    \/ ListenFail
    \/ \E c \in Conns : Accept(c)
    \/ ServeClosed
    \/ ServeFail
    \/ MainReturn
    \/ InterruptNotified
    \/ InterruptDefault
    \/ Notify
    \/ Receive
    \/ StartGrace
    \/ GraceExpire
    \/ ShutdownBegin
    \/ ShutdownPollQuiescent
    \/ ShutdownPollDeadline
    \/ ShutdownPollAgain
    \/ ShutdownLogErr
    \/ ShutdownNoErr
    \/ \E c \in Conns : \E r \in InboundSample(c) : ReadRequest(c, r)
    \/ \E c \in Conns : Direct(c)
    \/ \E c \in Conns : RoundTripOk(c)
    \/ \E c \in Conns : RoundTripFail(c)
    \/ \E c \in Conns : HandleError(c)
    \/ \E c \in Conns : Rewrite(c)
    \/ \E c \in Conns : WriteHeader(c)
    \/ \E c \in Conns : CopyBody(c)
    \/ \E c \in Conns : CopyBodyFail(c)

Spec == Init /\ [][Next]_vars

\* The lifecycle state of the server, read off the program's state.
Lifecycle ==
    IF ~Running THEN "Stopped"
    ELSE IF listenerOpen THEN "Listening"
    ELSE IF inShutdown THEN "Draining"
    ELSE "Initializing"

\* ------------------------------------------------------------- claims

\* Terms of the claims, stated apart from the code's own helpers.

ForwardingKeys == {"X-Forwarded-Host", "X-Forwarded-Proto", "X-Real-Ip"}

Last(seq) == seq[Len(seq)]

\* The upstream's authority as the configuration names it.
UpstreamAuthority == cfg.ProxyHost \o ":" \o ToString(cfg.ProxyPort)

\* Position of the last "/" of the path, 0 when it has none.
LastSlash(path) ==
    LET slashes == {i \in 1..Len(path) : path[i] = "/"}
    IN  IF slashes = {} THEN 0
        ELSE CHOOSE i \in slashes : \A j \in slashes : j <= i

\* Positions of the dots of the path's last segment.
SegmentDots(path) == {i \in (LastSlash(path) + 1)..Len(path) : path[i] = "."}

\* The file extension of the path: from the last dot of the last segment on.
FileExtension(path) ==
    LET i == CHOOSE k \in SegmentDots(path) : \A j \in SegmentDots(path) : j <= k
    IN  SubSeq(path, i, Len(path))

\* The MIME type registered for the path's extension (letter case aside),
\* "" when the path has no extension or the extension has no mapping.
MappedType(path) ==
    IF SegmentDots(path) = {} THEN ""
    ELSE IF FileExtension(path) \in
              {<<".", a, b>> : a \in {"j", "J"}, b \in {"s", "S"}}
         THEN "text/javascript; charset=utf-8"
         ELSE ""

\* The Content-Type the upstream sent, as a reader of the header sees it.
UpstreamContentType(resp) ==
    IF resp.Header["Content-Type"] = <<>> THEN ""
    ELSE resp.Header["Content-Type"][1]

GenericTypes == {"", "text/plain", "application/octet-stream"}

LifecycleRank(l) ==
    CASE l = "Initializing" -> 0
      [] l = "Listening" -> 1
      [] l = "Draining" -> 2
      [] l = "Stopped" -> 3

\* C1: when the process has exited with code 0 (the interrupt-triggered
\* shutdown path), no exchange that was in flight when the interrupt was
\* handled has been cut off, unless the 15 s grace period had elapsed.
C1_GracefulDrain ==
    exitCode = 0 =>
        \A c \in Conns : (ex[c].pc = "killed" /\ ex[c].atInterrupt) => ctxDone

\* C2: the value the Director appends to X-Forwarded-Host is the host of the
\* inbound request as the client addressed it.
C2_ForwardedHostIsOriginal ==
    result # <<>> => Last(result[1].Header["X-Forwarded-Host"]) = arg.Host

\* C3: after the Director has run, the outbound request's URL scheme, URL
\* host and Host field are the upstream's ("http", upstreamHost:upstreamPort)
\* whatever the inbound request held, and the target, once constructed, never
\* changes.
C3_OutboundIsTarget ==
    /\ [](result # <<>> =>
            /\ result[1].URL.Scheme = "http"
            /\ result[1].URL.Host = UpstreamAuthority
            /\ result[1].Host = UpstreamAuthority)
    /\ [][target # NoTarget => target' = target]_vars

C3_Witness ==
    /\ result # <<>>
    /\ arg.Host = "relay.example"
    /\ arg.URL.Scheme = "https"
    /\ arg.URL.Host = "relay.example"
    /\ cfg.ProxyHost = "backend"
    /\ target # NoTarget

\* C4: when the upstream's Content-Type is empty, text/plain or
\* application/octet-stream and the request path's extension has a MIME
\* mapping, the response relayed carries exactly the mapped type as its
\* Content-Type, with the upstream's status and body.
C4_GenericTypeFixed ==
    (/\ result # <<>>
     /\ UpstreamContentType(arg) \in GenericTypes
     /\ MappedType(arg.Request.URL.Path) # "")
    => /\ result[1].resp.Header["Content-Type"] =
              <<MappedType(arg.Request.URL.Path)>>
       /\ result[1].resp.StatusCode = arg.StatusCode
       /\ result[1].resp.Body = arg.Body

C4_Witness ==
    /\ result # <<>>
    /\ arg.Header["Content-Type"] = <<>>
    /\ arg.Request.URL.Path = <<"/", ".", "J", "s">>
    /\ arg.StatusCode = 404
    /\ result[1].resp.Header["Content-Type"] = <<"text/javascript; charset=utf-8">>

\* C5: when the request path has no extension, or its extension has no MIME
\* mapping, or the upstream's Content-Type is none of the three generic
\* values, the rewriter leaves every header as the upstream sent it.
C5_SpecificTypeKept ==
    (/\ result # <<>>
     /\ \/ MappedType(arg.Request.URL.Path) = ""
        \/ UpstreamContentType(arg) \notin GenericTypes)
    => result[1].resp.Header = arg.Header

C5_Witness ==
    /\ result # <<>>
    /\ arg.Request.URL.Path = <<"/", ".", "j", "s">>
    /\ arg.Header["Content-Type"] = <<"application/json", "text/plain">>
    /\ result[1].resp.Header = arg.Header

C7_LifecycleForward ==
    [][LifecycleRank(Lifecycle') >= LifecycleRank(Lifecycle)]_vars

C7_Witness ==
    /\ Lifecycle = "Stopped"
    /\ exitCode = 0
    /\ inShutdown
    /\ \E c \in Conns : ex[c].pc = "relayed"

\* C8 as stated: once Draining is entered, no connection is accepted and no
\* exchange starts.
C8_NoNewExchangeWhileDraining ==
    [][inShutdown =>
         \A c \in Conns :
            /\ conn[c] = "none" => conn'[c] = "none"
            /\ conn[c] # "active" => conn'[c] # "active"]_vars

\* C8 as amended: once Draining is entered, no connection is accepted; an
\* exchange starts only on a connection accepted before.
C8_NoAcceptWhileDraining ==
    [][inShutdown =>
         \A c \in Conns :
            /\ conn[c] = "none" => conn'[c] = "none"
            /\ (conn[c] # "active" /\ conn'[c] = "active") =>
                   conn[c] \in {"new", "idle"}]_vars

C8_Witness ==
    /\ Lifecycle = "Draining"
    /\ conn[1] = "active"
    /\ ex[1].pc = "streaming"
    /\ conn[2] = "none"

\* C9: when the shutdown call has returned an error and the process has
\* exited, the error was logged and the exit code is 0.
C9_ShutdownErrorRecorded ==
    (~Running /\ shutdownErr \notin {"none", "nil"}) =>
        shutdownLog = 1 /\ exitCode = 0

\* C10: for each forwarding header, the outbound request carries every value
\* the client supplied, unchanged and in order, followed by one injected
\* value.
C10_ForwardingHeadersAdditive ==
    result # <<>> =>
        \A k \in ForwardingKeys :
            /\ Len(result[1].Header[k]) = Len(arg.Header[k]) + 1
            /\ SubSeq(result[1].Header[k], 1, Len(arg.Header[k])) = arg.Header[k]

C10_Witness ==
    /\ result # <<>>
    /\ arg.Header["X-Forwarded-Host"] = <<"b.example", "a.example">>
    /\ arg.Header["X-Forwarded-Proto"] = <<"https">>
    /\ arg.Header["X-Real-Ip"] = <<"10.9.9.9">>
    /\ Len(result[1].Header["X-Forwarded-Host"]) = 3

\* ---- C11

RequiredFlagMissing ==
    \/ cfg.Host = "" \/ cfg.Port = 0 \/ cfg.ProxyHost = ""
    \/ cfg.ProxyPort = 0 \/ cfg.CertFile = "" \/ cfg.KeyFile = ""

CertOrKeyMissing == ~({cfg.CertFile, cfg.KeyFile} \subseteq files)

ListenerFailed == serveErr \in {"listen error", "accept error"}

\* The run ended because the interrupt was handled: server.Shutdown made
\* ListenAndServeTLS return the server-closed error and main returned.
ThroughShutdownPath ==
    /\ mainPc = "exited"
    /\ serveErr = "ErrServerClosed"
    /\ inShutdown

\* The default disposition of SIGINT ended the process before signal.Notify.
KilledBySignal == ~notified /\ exitCode > 128

\* Once the run has failed (or ended), no connection is accepted any more.
NoAcceptAfterFailure ==
    [][(ListenerFailed \/ ~Running)
         => \A c \in Conns : conn[c] = "none" => conn'[c] = "none"]_vars

\* The non-zero half of the exit-code contract, with what the failures leave
\* behind: a run that never got its configuration accepted no connection.
NonZeroOnFailure ==
    /\ (~Running /\ args = "flags" /\ RequiredFlagMissing)
          => exitCode # 0 /\ \A c \in Conns : conn[c] = "none"
    /\ (~Running /\ args = "flags" /\ CertOrKeyMissing)
          => exitCode # 0 /\ \A c \in Conns : conn[c] = "none"
    /\ (~Running /\ ListenerFailed) => exitCode # 0
    /\ (~Running /\ serveErr = "listen error")
          => \A c \in Conns : conn[c] = "none"

\* C11 as stated: the exit code is 0 exactly when the run ends through the
\* interrupt-triggered shutdown path; it is non-zero when a required flag is
\* missing, when the certificate or key file is missing and when the listener
\* fails, and after such a failure no connection is accepted.
C11_ZeroOnlyThroughShutdown ==
    /\ []((~Running) => (exitCode = 0 <=> ThroughShutdownPath))
    /\ []NonZeroOnFailure
    /\ NoAcceptAfterFailure

\* C11 amended: the exit code is 0 exactly when the run ends through the
\* interrupt-triggered shutdown path or when the command line asks for the
\* usage (-h, -help), which flag.Parse answers with exit code 0; it is
\* non-zero when a required flag is missing, when the certificate or key file
\* is missing and when the listener fails, and after such a failure no
\* connection is accepted.
C11_ZeroThroughShutdownOrHelp ==
    /\ []((~Running) =>
            /\ exitCode = 0 => (ThroughShutdownPath \/ args = "help")
            /\ ThroughShutdownPath => exitCode = 0
            /\ args = "help" => (exitCode = ExitHelp \/ KilledBySignal))
    /\ []NonZeroOnFailure
    /\ NoAcceptAfterFailure

\* A run that served a connection, was interrupted and ended with code 0.
C11_Witness ==
    /\ exitCode = 0
    /\ ThroughShutdownPath
    /\ conn[1] = "closed"

\* ---- C12

\* C12: for every inbound request the Director appends the rewritten target
\* scheme to X-Forwarded-Proto and the caller's remote address to X-Real-IP,
\* so the request the upstream receives carries both headers.
C12_ProtoAndRealIpAppended ==
    result # <<>> =>
        LET out == result[1]
            proto == out.Header["X-Forwarded-Proto"]
            realIp == out.Header["X-Real-Ip"]
        IN  /\ Len(proto) = Len(arg.Header["X-Forwarded-Proto"]) + 1
            /\ Last(proto) = target.Scheme
            /\ Last(proto) = out.URL.Scheme
            /\ Len(realIp) = Len(arg.Header["X-Real-Ip"]) + 1
            /\ Last(realIp) = arg.RemoteAddr

\* A request that came over https with neither header: the upstream sees the
\* target's scheme and the caller's address.
C12_Witness ==
    /\ result # <<>>
    /\ arg.URL.Scheme = "https"
    /\ arg.Header["X-Forwarded-Proto"] = <<>>
    /\ arg.Header["X-Real-Ip"] = <<>>
    /\ result[1].Header["X-Forwarded-Proto"] = <<"http">>
    /\ result[1].Header["X-Real-Ip"] = <<arg.RemoteAddr>>

\* ---- C13

\* C13: the Director changes only the URL scheme, the URL host, the Host field
\* and the three forwarding headers: the method, the path, the query, the
\* body, the remote address and every other header are the same before and
\* after it runs.
C13_DirectorFrame ==
    result # <<>> =>
        LET out == result[1]
        IN  /\ out.Method = arg.Method
            /\ out.URL.Path = arg.URL.Path
            /\ out.URL.RawQuery = arg.URL.RawQuery
            /\ out.Body = arg.Body
            /\ out.RemoteAddr = arg.RemoteAddr
            /\ DOMAIN out = DOMAIN arg
            /\ DOMAIN out.URL = DOMAIN arg.URL
            /\ DOMAIN out.Header = DOMAIN arg.Header
            /\ \A k \in DOMAIN arg.Header \ ForwardingKeys :
                   out.Header[k] = arg.Header[k]

\* A POST with a path, a query, a body and an Accept header went through.
C13_Witness ==
    /\ result # <<>>
    /\ arg.Method = "POST"
    /\ arg.URL.Path = <<"/", "j">>
    /\ arg.URL.RawQuery = "q=1"
    /\ arg.Body = "body"
    /\ arg.Header["Accept"] = <<"*/*">>
    /\ result[1].Host # arg.Host
    /\ result[1].Header["Accept"] = <<"*/*">>

\* ---- C14

\* The exchange of connection c has a request, a response slot and a client
\* writer on record.
OnRecord(c) == ex[c].pc \notin {"none", "killed"}

\* The statuses the upstream answers the exchange of connection c with.
UpstreamStatus(c) == {u.StatusCode : u \in UpstreamSample(ex[c].outreq)}

\* C14: the Response Rewriter never fails an exchange.  After the rewriter
\* has run on a response the exchange goes on to the client-facing write; the
\* Error Policy is applied only to exchanges whose round trip failed, which
\* have no upstream response; an exchange that received the upstream's
\* response headers is relayed with the upstream's status.
C14_RewriterNeverFails ==
    /\ [](\A c \in Conns :
            /\ ex[c].pc \in {"failed", "errored"} =>
                   /\ ex[c].resp = <<>>
                   /\ ex[c].mimeLogs = 0
            /\ (OnRecord(c) /\ ex[c].resp # <<>>) =>
                   /\ ex[c].resp.StatusCode \in UpstreamStatus(c)
                   /\ ex[c].w.errLogs = 0
                   /\ ex[c].w.Status # StatusBadGateway
            /\ ex[c].pc \in {"streaming", "relayed", "aborted"} =>
                   ex[c].w.Status \in UpstreamStatus(c))
    /\ [][\A c \in Conns :
            (ex[c].pc = "responded" /\ ex'[c].pc # "responded")
                => ex'[c].pc \in {"modified", "killed"}]_vars

\* One exchange was relayed with the upstream's 404 while the other, whose
\* round trip failed, got the 502.
C14_Witness ==
    /\ ex[2].pc = "relayed"
    /\ ex[2].w.Status = 404
    /\ ex[2].resp.StatusCode = 404
    /\ ex[1].pc = "errored"
    /\ ex[1].w.Status = StatusBadGateway

\* ---- C15

\* What the upstream's answer u is when the proxy has received it for the
\* outbound request outreq.
Received(u, outreq) ==
    [StatusCode |-> u.StatusCode, Header |-> u.Header, Body |-> u.Body,
     Request |-> outreq]

\* The records an exchange that runs alone on request r can be in when it is
\* at position pc: its rewritten request, its response and what the client
\* was sent depend on r (and on what the upstream does) and on nothing else.
AloneAt(r, pc) ==
    LET out == Director(r)
        base == [pc |-> pc, in |-> r, outreq |-> out, resp |-> <<>>,
                 w |-> FreshWriter, mimeLogs |-> 0, attempts |-> 1]
        got == {Received(u, out) : u \in UpstreamSample(out)}
    IN  CASE pc = "read" ->
               {[base EXCEPT !.outreq = r, !.attempts = 0]}
          [] pc = "directed" -> {[base EXCEPT !.attempts = 0]}
          [] pc = "failed" -> {base}
          [] pc = "errored" -> {[base EXCEPT !.w = ErrorHandler(FreshWriter)]}
          [] pc = "responded" -> {[base EXCEPT !.resp = g] : g \in got}
          [] OTHER ->
               {[base EXCEPT
                   !.resp = ModifyResponse(g).resp,
                   !.mimeLogs = ModifyResponse(g).logged,
                   !.w = [Status |-> IF pc = "modified" THEN 0
                                     ELSE g.StatusCode,
                          Header |-> IF pc = "modified" THEN FreshWriter.Header
                                     ELSE ModifyResponse(g).resp.Header,
                          Body |-> IF pc = "relayed" THEN g.Body ELSE "",
                          errLogs |-> 0]] : g \in got}

\* The record of connection c's exchange without its history mark.
Outcome(c) ==
    [f \in DOMAIN ex[c] \ {"atInterrupt"} |-> ex[c][f]]

\* C15: concurrent exchanges are independent.  In every interleaving each
\* exchange is where it would be had it run alone on its request, and a step
\* of one exchange (its transport failure and its 502 included) changes
\* neither another exchange or connection nor the server's lifecycle.
C15_ExchangesIndependent ==
    /\ [](\A c \in Conns :
            OnRecord(c) => Outcome(c) \in AloneAt(ex[c].in, ex[c].pc))
    /\ [][\A c \in Conns :
            (ex'[c].pc # ex[c].pc /\ ex'[c].pc # "killed") =>
                /\ \A d \in Conns \ {c} :
                       ex'[d] = ex[d] /\ conn'[d] = conn[d]
                /\ Lifecycle' = Lifecycle
                /\ UNCHANGED lifeVars]_vars

\* The round trip of one exchange has failed while another exchange is
\* being streamed to its client, and the server is still listening.
C15_Witness ==
    /\ ex[1].pc = "failed"
    /\ ex[2].pc = "streaming"
    /\ ex[2].w.Status = 404
    /\ Lifecycle = "Listening"

\* ---- C16

\* The exchange of connection c goes on (it is neither replaced by the next
\* request of the connection nor cut off) in the step.
SameExchange(c) == OnRecord(c) /\ ex'[c].pc \notin {"read", "killed"}

\* The step sends the outbound request of connection c to the upstream.
Transmits(c) == SameExchange(c) /\ ex'[c].attempts > ex[c].attempts

\* The step runs the Response Rewriter on the response of connection c.
Rewrites(c) ==
    SameExchange(c) /\ ex[c].pc = "responded" /\ ex'[c].pc # "responded"

\* The step writes to the client of connection c.
WritesClient(c) == SameExchange(c) /\ ex'[c].w # ex[c].w

\* The Response Rewriter has run on the exchange of connection c.
Rewritten(c) ==
    /\ ex[c].pc \in {"modified", "streaming", "relayed", "aborted"}
    /\ \E u \in UpstreamSample(ex[c].outreq) :
          ex[c].resp = ModifyResponse(Received(u, ex[c].outreq)).resp

\* C16: the steps of an exchange occur in a fixed order.  The request is
\* transmitted only after the Director has run on it; the Response Rewriter
\* runs on a received response with nothing yet written to the client; the
\* client is written to only after the rewriter has run, or by the Error
\* Policy on an exchange the rewriter never saw; no exchange has both.
C16_FixedOrder ==
    /\ [][\A c \in Conns :
            /\ Transmits(c) =>
                   /\ ex[c].pc = "directed"
                   /\ ex[c].outreq = Director(ex[c].in)
                   /\ ex'[c].outreq = ex[c].outreq
            /\ Rewrites(c) =>
                   /\ ex[c].resp # <<>>
                   /\ ex[c].attempts = 1
                   /\ ex[c].w = FreshWriter
                   /\ ex'[c].w = FreshWriter
            /\ WritesClient(c) =>
                   \/ Rewritten(c) /\ ex'[c].w.errLogs = 0
                   \/ /\ ex[c].pc = "failed"
                      /\ ex[c].resp = <<>>
                      /\ ex[c].mimeLogs = 0
                      /\ ex'[c].pc = "errored"]_vars
    /\ [](\A c \in Conns :
            OnRecord(c) => ~(Rewritten(c) /\ ex[c].w.errLogs > 0))

\* An exchange whose Content-Type the rewriter corrected has been written to
\* its client in full.
C16_Witness ==
    /\ ex[1].pc = "relayed"
    /\ ex[1].mimeLogs = 1
    /\ ex[1].attempts = 1
    /\ ex[1].w.Header["Content-Type"] = <<"text/javascript; charset=utf-8">>
    /\ ex[1].w.Body = "x"

\* ---- C17

\* The shutdown goroutine has taken an interrupt from sigChan.
InterruptHandled ==
    \/ sigPc \in {"received", "shutdown", "polling", "returned", "done"}
    \/ inShutdown
    \/ shutdownErr # "none"

\* C17: shutdown is initiated at most once per run.  Once the goroutine has
\* taken an interrupt, sigChan is never read again, server.Shutdown is not
\* entered a second time, the grace period is not restarted, and a later
\* interrupt changes only the channel's buffer: the lifecycle state, the
\* goroutine, the listener, the connections and the exchanges stay as they
\* are.
C17_ShutdownOnce ==
    [][(InterruptHandled /\ Running') =>
          /\ sigChan' >= sigChan
          /\ sigPc' = "received" => sigPc = "received"
          /\ inShutdown => (inShutdown' /\ sigPc' \notin {"wait", "shutdown"})
          /\ ctxDone => ctxDone'
          /\ shutdownErr # "none" => shutdownErr' = shutdownErr
          /\ sigChan' > sigChan =>
                 /\ Lifecycle' = Lifecycle
                 /\ UNCHANGED <<mainPc, sigPc, inShutdown, listenerOpen,
                                ctxDone, shutdownErr, shutdownLog, serveErr,
                                conn, ex>>]_vars

\* A second interrupt sits in the channel while the server drains an
\* exchange: nobody will read it.
C17_Witness ==
    /\ Running
    /\ sigChan = 1
    /\ sigPc = "polling"
    /\ Lifecycle = "Draining"
    /\ ex[1].pc = "directed"

\* ---- C18

\* server.Shutdown was called before main got to ListenAndServeTLS.
EarlyShutdown == inShutdown /\ mainPc = "listen"

\* ListenAndServeTLS has returned the server-closed error to main.
ServerClosedReturned == mainPc = "returned" /\ serveErr = "ErrServerClosed"

NoneAccepted == \A c \in Conns : conn[c] = "none"

\* C18: when the interrupt is handled before main serves, the server accepts
\* no connection: the listener is never opened, main's only step out of
\* ListenAndServeTLS is the return of the server-closed error, which is
\* possible at once, and from there the process exits with code 0.
C18_ShutdownBeforeServing ==
    /\ [](EarlyShutdown =>
            /\ ~listenerOpen
            /\ NoneAccepted
            /\ ENABLED ListenClosed)
    /\ [][EarlyShutdown =>
            /\ Running'
            /\ NoneAccepted'
            /\ ~listenerOpen'
            /\ mainPc' # mainPc => ServerClosedReturned']_vars
    /\ [][ServerClosedReturned =>
            /\ \A c \in Conns : conn[c] = "none" => conn'[c] = "none"
            /\ ~listenerOpen'
            /\ mainPc' # mainPc => exitCode' = 0]_vars

\* Shutdown has run to its end, and the goroutine with it, before main
\* called ListenAndServeTLS.
C18_Witness ==
    /\ EarlyShutdown
    /\ sigPc = "done"
    /\ shutdownErr = "nil"
    /\ serveErr = "none"

====
